---------------------------- MODULE Spec2Model ----------------------------
(***************************************************************************)
(* A model of beneuro_data/data_validation.py: the validators of a raw     *)
(* session directory.                                                      *)
(*                                                                         *)
(* A string is a sequence of characters, a character a one-element token   *)
(* ("M", "_", "3", ...).  Two tokens stand for characters that are not     *)
(* printable here: LF is the newline and UDigit is the non-ASCII decimal   *)
(* digit U+0663, which Python's \d matches and int() reads as 3.           *)
(* A path below the session folder is a sequence of names; the tree of the *)
(* session folder is a set of entries [path, dir].                         *)
(***************************************************************************)
EXTENDS Integers, Sequences, FiniteSets, TLC

VARIABLES
    sessionName,   \* session_path.name
    exists,        \* session_path.exists()
    padsYear,      \* the platform's strftime pads %Y to four digits
    tree,          \* the entries below session_path
    scanOrder,     \* the order in which a scan of session_path lists the *_g? entries
    writes,        \* external writes made to the tree so far
    last,          \* the latest validator call on the tree as it is: op, args, out
    repeated       \* the latest call came right after the same call with the same arguments

vars == <<sessionName, exists, padsYear, tree, scanOrder, writes, last, repeated>>

----------------------------------------------------------------------------
(* Characters and strings *)

LF == "\n"
UDigit == "U+0663"

US == <<"_">>

AsciiDigits == <<"0", "1", "2", "3", "4", "5", "6", "7", "8", "9">>

\* the characters of the class [lo-hi] of ASCII digits
DigitRange(lo, hi) == {AsciiDigits[v + 1] : v \in lo..hi}

\* \d of a str pattern: any Unicode decimal digit
IsDigit(c) == c \in DigitRange(0, 9) \cup {UDigit}

\* int() of one digit character
DigitVal(c) ==
    IF c = UDigit THEN 3
    ELSE CHOOSE v \in 0..9 : AsciiDigits[v + 1] = c

\* s[i-1] in Python terms, "" past either end
Ch(s, i) == IF i >= 1 /\ i <= Len(s) THEN s[i] ELSE ""

\* s[a-1:b] in Python terms (1-based, inclusive, clamped)
Slice(s, a, b) == SubSeq(s, IF a < 1 THEN 1 ELSE a, IF b > Len(s) THEN Len(s) ELSE b)

StartsWith(s, p) == Len(p) <= Len(s) /\ SubSeq(s, 1, Len(p)) = p

EndsWith(s, p) == Len(p) <= Len(s) /\ SubSeq(s, Len(s) - Len(p) + 1, Len(s)) = p

RECURSIVE Join(_, _)
\* sep.join(parts)
Join(parts, sep) ==
    IF parts = <<>> THEN <<>>
    ELSE IF Len(parts) = 1 THEN parts[1]
    ELSE parts[1] \o sep \o Join(Tail(parts), sep)

\* a pattern without * : as long as the string, each ? any one character
FixedMatch(pat, s) ==
    /\ Len(pat) = Len(s)
    /\ \A i \in 1..Len(pat) : pat[i] = "?" \/ pat[i] = s[i]

RECURSIVE GlobMatch(_, _)
\* fnmatch of one path component: * is any run of characters, ? any one character.
\* (A pattern whose only * leads it matches by the end of the string.)
GlobMatch(pat, s) ==
    IF pat = <<>> THEN s = <<>>
    ELSE IF Head(pat) = "*" /\ \A i \in 2..Len(pat) : pat[i] # "*"
         THEN /\ Len(s) >= Len(pat) - 1
              /\ FixedMatch(Tail(pat), SubSeq(s, Len(s) - Len(pat) + 2, Len(s)))
    ELSE IF Head(pat) = "*"
         THEN GlobMatch(Tail(pat), s) \/ (s # <<>> /\ GlobMatch(pat, Tail(s)))
         ELSE /\ s # <<>>
              /\ (Head(pat) = "?" \/ Head(pat) = Head(s))
              /\ GlobMatch(Tail(pat), Tail(s))

\* F applied to the value of v, with v evaluated once
Bind(v, F(_)) == CHOOSE r \in {F(x) : x \in {v}} : TRUE

----------------------------------------------------------------------------
(* Outcomes of a call *)

Returned(v, w) ==
    [kind |-> "ok", value |-> v, detail |-> "", expected |-> 0, found |-> 0,
     warnings |-> w]

Raised(kind, detail, w) ==
    [kind |-> kind, value |-> <<>>, detail |-> detail, expected |-> 0, found |-> 0,
     warnings |-> w]

True == <<"True">>

NoCall == [op |-> "none", args |-> <<>>, out |-> Returned(<<>>, {})]

----------------------------------------------------------------------------
(* datetime.strptime and strftime with EXPECTED_DATE_FORMAT *)

\* the fields of "%Y_%m_%d_%H_%M", in order
NFields == 5

\* The lengths of the alternatives of field k that match at position i of s,
\* in the priority order of the pattern strptime compiles:
\*   Y \d\d\d\d        m 1[0-2]|0[1-9]|[1-9]     d 3[0-1]|[1-2]\d|0[1-9]|[1-9]| [1-9]
\*   H 2[0-3]|[0-1]\d|\d                          M [0-5]\d|\d
FieldLens(k, s, i) ==
    LET a == Ch(s, i)
        b == Ch(s, i + 1)
        Opt(cond, n) == IF cond THEN <<n>> ELSE <<>>
    IN  CASE k = 1 -> Opt(\A j \in 0..3 : IsDigit(Ch(s, i + j)), 4)
          [] k = 2 -> Opt(\/ a = "1" /\ b \in DigitRange(0, 2)
                          \/ a = "0" /\ b \in DigitRange(1, 9), 2)
                      \o Opt(a \in DigitRange(1, 9), 1)
          [] k = 3 -> Opt(\/ a = "3" /\ b \in DigitRange(0, 1)
                          \/ a \in DigitRange(1, 2) /\ IsDigit(b)
                          \/ a = "0" /\ b \in DigitRange(1, 9), 2)
                      \o Opt(a \in DigitRange(1, 9), 1)
                      \o Opt(a = " " /\ b \in DigitRange(1, 9), 2)
          [] k = 4 -> Opt(\/ a = "2" /\ b \in DigitRange(0, 3)
                          \/ a \in DigitRange(0, 1) /\ IsDigit(b), 2)
                      \o Opt(IsDigit(a), 1)
          [] OTHER -> Opt(a \in DigitRange(0, 5) /\ IsDigit(b), 2)
                      \o Opt(IsDigit(a), 1)

RECURSIVE TryAlts(_, _, _, _)
\* re.match of the compiled pattern from field k at position i: the field lengths
\* of the first alternative (backtracking in order) after which the rest matches,
\* <<>> when none does
TryAlts(s, i, k, lens) ==
    IF lens = <<>> THEN <<>>
    ELSE LET l == Head(lens)
             rest == IF k = NFields THEN <<l>>
                     ELSE IF Ch(s, i + l) # "_" THEN <<>>
                     ELSE LET j == i + l + 1
                              r == TryAlts(s, j, k + 1, FieldLens(k + 1, s, j))
                          IN  IF r = <<>> THEN <<>> ELSE <<l>> \o r
         IN  IF rest # <<>> THEN rest ELSE TryAlts(s, i, k, Tail(lens))

\* int() of a matched field: one, two or four characters (int() strips the blank
\* the day field may start with)
IntOf(s) ==
    LET D(i) == IF s[i] = " " THEN 0 ELSE DigitVal(s[i])
    IN  IF Len(s) = 1 THEN D(1)
        ELSE IF Len(s) = 2 THEN 10 * D(1) + D(2)
        ELSE 1000 * D(1) + 100 * D(2) + 10 * D(3) + D(4)

IsLeap(y) == y % 4 = 0 /\ (y % 100 # 0 \/ y % 400 = 0)

DaysInMonth(y, m) ==
    IF m = 2 THEN (IF IsLeap(y) THEN 29 ELSE 28)
    ELSE IF m \in {4, 6, 9, 11} THEN 30 ELSE 31

NoDate == [ok |-> FALSE, year |-> 0, month |-> 0, day |-> 0, hour |-> 0, minute |-> 0]

\* The datetime of a match m (the field lengths) of s, ok FALSE where strptime
\* raises ValueError
DateOfMatch(s, m) ==
    IF m = <<>> THEN NoDate                           \* does not match format
    ELSE
    LET p2 == 1 + m[1] + 1
        p3 == p2 + m[2] + 1
        p4 == p3 + m[3] + 1
        p5 == p4 + m[4] + 1
        end == p5 + m[5] - 1
        y == IntOf(SubSeq(s, 1, m[1]))
        mo == IntOf(SubSeq(s, p2, p2 + m[2] - 1))
        d == IntOf(SubSeq(s, p3, p3 + m[3] - 1))
        h == IntOf(SubSeq(s, p4, p4 + m[4] - 1))
        mi == IntOf(SubSeq(s, p5, p5 + m[5] - 1))
    IN  IF end # Len(s) THEN NoDate                   \* unconverted data remains
        ELSE IF y < 1 THEN NoDate                     \* year 0 is out of range
        ELSE IF d > DaysInMonth(y, mo) THEN NoDate    \* day is out of range for month
        ELSE [ok |-> TRUE, year |-> y, month |-> mo, day |-> d, hour |-> h,
              minute |-> mi]

\* datetime.strptime(s, EXPECTED_DATE_FORMAT)
Strptime(s) == Bind(TryAlts(s, 1, 1, FieldLens(1, s, 1)), LAMBDA m : DateOfMatch(s, m))

TwoDigits(n) == <<AsciiDigits[(n \div 10) + 1], AsciiDigits[(n % 10) + 1]>>

RECURSIVE Decimal(_)
Decimal(n) ==
    IF n < 10 THEN <<AsciiDigits[n + 1]>>
    ELSE Decimal(n \div 10) \o <<AsciiDigits[(n % 10) + 1]>>

\* %Y: the C library's rendering, which pads a year below 1000 on some platforms only
YearDigits(y, pads) ==
    IF pads /\ y < 1000
    THEN SubSeq(<<"0", "0", "0">>, 1, 4 - Len(Decimal(y))) \o Decimal(y)
    ELSE Decimal(y)

\* dt.strftime(EXPECTED_DATE_FORMAT)
Strftime(dt, pads) ==
    Join(<<YearDigits(dt.year, pads), TwoDigits(dt.month), TwoDigits(dt.day),
           TwoDigits(dt.hour), TwoDigits(dt.minute)>>, <<"_">>)

----------------------------------------------------------------------------
(* validate_date_format, validate_session_path, extract_gid *)

\* validate_date_format without the comparison with the reformatted string
ValidateDateFormatParseOnly(extracted_date_str, pads) ==
    IF ~Strptime(extracted_date_str).ok THEN Raised("ValueError", "date_unparsable", {})
    ELSE Returned(True, {})

ValidateDateFormat(extracted_date_str, pads) ==
    Bind(Strptime(extracted_date_str), LAMBDA dt :
        IF ~dt.ok THEN Raised("ValueError", "date_unparsable", {})
        ELSE IF extracted_date_str # Strftime(dt, pads)
             THEN Raised("ValueError", "date_not_canonical", {})
        ELSE Returned(True, {}))

ValidateSessionPath(folder_name, path_exists, subject_name, pads) ==
    IF ~path_exists THEN Raised("FileNotFoundError", "session_folder", {})
    ELSE IF ~StartsWith(folder_name, subject_name)
         THEN Raised("ValueError", "subject_prefix", {})
    ELSE IF Len(folder_name) <= Len(subject_name)
         THEN Raised("IndexError", "string index out of range", {})
    ELSE IF folder_name[Len(subject_name) + 1] # "_"
         THEN Raised("ValueError", "underscore", {})
    ELSE LET out == ValidateDateFormat(
                        Slice(folder_name, Len(subject_name) + 2, Len(folder_name)), pads)
         IN  IF out.kind # "ok" THEN out ELSE Returned(True, {})

\* re.search(r"_g(\d)$", folder_name): the 1-based start of the match, 0 for None.
\* $ matches at the end and before a newline that ends the string.
GidSearch(folder_name) ==
    LET n == Len(folder_name)
        At(i) == /\ i >= 1
                 /\ Ch(folder_name, i) = "_"
                 /\ Ch(folder_name, i + 1) = "g"
                 /\ IsDigit(Ch(folder_name, i + 2))
        starts == {i \in {n - 3, n - 2} :
                      /\ At(i)
                      /\ (i + 2 = n \/ (i + 3 = n /\ folder_name[n] = LF))}
    IN  IF starts = {} THEN 0 ELSE CHOOSE i \in starts : \A j \in starts : i <= j

\* extract_gid returning group(1), the digit alone
ExtractGidGroupOne(folder_name) ==
    LET at == GidSearch(folder_name)
    IN  IF at = 0 THEN Raised("ValueError", "recording_id", {})
        ELSE Returned(SubSeq(folder_name, at + 2, at + 2), {})

ExtractGid(folder_name) ==
    LET at == GidSearch(folder_name)
    IN  IF at = 0 THEN Raised("ValueError", "recording_id", {})
        ELSE Returned(Tail(SubSeq(folder_name, at, at + 2)), {})

----------------------------------------------------------------------------
(* The tree below session_path, as pathlib reads it *)

Name(p) == p[Len(p)]

Parent(p) == SubSeq(p, 1, Len(p) - 1)

Paths(t) == {e.path : e \in t}

IsFile(t, p) == [path |-> p, dir |-> FALSE] \in t

\* the empty path is session_path itself
IsDir(t, p) == p = <<>> \/ [path |-> p, dir |-> TRUE] \in t

PathExists(t, p) == IsFile(t, p) \/ IsDir(t, p)

\* q.is_relative_to(p)
IsRelativeTo(q, p) == Len(p) <= Len(q) /\ SubSeq(q, 1, Len(p)) = p

\* p.iterdir()
IterDir(t, p) == {q \in Paths(t) : Len(q) = Len(p) + 1 /\ IsRelativeTo(q, p)}

\* p.glob(pat), pat one component
Glob(t, p, pat) == {q \in IterDir(t, p) : GlobMatch(pat, Name(q))}

\* p.glob("**/" + pat): the entries at any depth below p
RGlob(t, p, pat) ==
    {q \in Paths(t) : Len(q) > Len(p) /\ IsRelativeTo(q, p) /\ GlobMatch(pat, Name(q))}

\* PurePath.suffix
Suffix(name) ==
    LET dots == {i \in 1..Len(name) : name[i] = "."}
        i == CHOOSE k \in dots : \A j \in dots : j <= k
    IN  IF dots = {} THEN <<>>
        ELSE IF 1 < i /\ i < Len(name) THEN SubSeq(name, i, Len(name))
        ELSE <<>>

\* name.split("_")[-1]
LastPiece(name) ==
    LET seps == {i \in 1..Len(name) : name[i] = "_"}
        i == CHOOSE k \in seps : \A j \in seps : j <= k
    IN  IF seps = {} THEN name ELSE SubSeq(name, i + 1, Len(name))

RECURSIVE ListOf(_)
\* The list a directory scan makes of a set of entries.  The order of a scan is
\* the file system's; it is the same for every scan of an untouched tree.
ListOf(S) ==
    IF S = {} THEN <<>>
    ELSE LET x == CHOOSE y \in S : TRUE
         IN  <<x>> \o ListOf(S \ {x})

Range(seq) == {seq[i] : i \in 1..Len(seq)}

----------------------------------------------------------------------------
(* validate_raw_behavioral_data_of_session *)

ExtPca == <<".", "p", "c", "a">>
ExtTxt == <<".", "t", "x", "t">>
ExtPy == <<".", "p", "y">>
MotSen == <<"_", "M", "o", "t", "S", "e", "n">>
TaskFolderName ==
    <<"r", "u", "n", "_", "t", "a", "s", "k", "-", "t", "a", "s", "k", "_", "f", "i",
      "l", "e", "s">>

\* expected_number_of_pycontrol_files_per_extension
ExpectedPcaFiles == 2
ExpectedTxtFiles == 1
ExpectedFiles(ext) == IF ext = ExtPca THEN ExpectedPcaFiles ELSE ExpectedTxtFiles

\* pycontrol_ending_pattern_per_extension[ext] matches s from position k:
\*   .pca  _MotSen\d-(X|Y)\.pca        .txt  \.txt
EndingMatchesAt(ext, s, k) ==
    IF ext = ExtPca
    THEN /\ SubSeq(s, k, k + 6) = MotSen
         /\ IsDigit(Ch(s, k + 7))
         /\ Ch(s, k + 8) = "-"
         /\ Ch(s, k + 9) \in {"X", "Y"}
         /\ k + 13 <= Len(s)
         /\ SubSeq(s, k + 10, k + 13) = ExtPca
    ELSE k + 3 <= Len(s) /\ SubSeq(s, k, k + 3) = ExtTxt

\* re.match(^ + re.escape(session name) + .* + ending, filename) is not None
PycontrolMatch(ext, session_name, filename) ==
    /\ StartsWith(filename, session_name)
    /\ \E k \in (Len(session_name) + 1)..Len(filename) :
          /\ \A j \in (Len(session_name) + 1)..(k - 1) : filename[j] # LF
          /\ EndingMatchesAt(ext, filename, k)

\* _find_whitelisted_files_in_root: the entries of the root whose name is one of
\* the whitelisted names
WhitelistedFilesFound(t, whitelisted_files_in_root) ==
    {q \in IterDir(t, <<>>) : Name(q) \in whitelisted_files_in_root}

WrongNumberOfFiles(detail, expected, found) ==
    [Raised("WrongNumberOfFilesError", detail, {}) EXCEPT
        !.expected = expected, !.found = found]

\* the pass with the whitelisted files skipped by the pattern check and yet counted
PycontrolFilesCountingWhitelisted(t, session_name, whitelisted_files_found, ext) ==
    LET all_files_with_extension == Glob(t, <<>>, <<"*">> \o ext)
        candidates == all_files_with_extension \ whitelisted_files_found
        n_files_found == Cardinality(all_files_with_extension)
    IN  IF \E f \in candidates : ~PycontrolMatch(ext, session_name, Name(f))
        THEN Raised("ValueError", "pycontrol_pattern", {})
        ELSE IF n_files_found # ExpectedFiles(ext)
        THEN WrongNumberOfFiles(IF ext = ExtPca THEN "pca_count" ELSE "txt_count",
                                ExpectedFiles(ext), n_files_found)
        ELSE Returned(ListOf(candidates), {})

\* one pass of the loop over the extensions: the files of the extension, or the error
PycontrolFilesWithExtension(t, session_name, whitelisted_files_found, ext) ==
    LET all_files_with_extension == Glob(t, <<>>, <<"*">> \o ext)
        candidates == all_files_with_extension \ whitelisted_files_found
        n_files_found == Cardinality(candidates)
    IN  IF \E f \in candidates : ~PycontrolMatch(ext, session_name, Name(f))
        THEN Raised("ValueError", "pycontrol_pattern", {})
        ELSE IF n_files_found # ExpectedFiles(ext)
        THEN WrongNumberOfFiles(IF ext = ExtPca THEN "pca_count" ELSE "txt_count",
                                ExpectedFiles(ext), n_files_found)
        ELSE Returned(ListOf(candidates), {})

\* the task folder read without the check for more than one .py file
WithFirstTaskFile(t, files, warn_if_no_pycontrol_py_folder) ==
    LET py_folder == <<TaskFolderName>>
        python_files_found == Glob(t, py_folder, <<"*">> \o ExtPy)
    IN  IF ~PathExists(t, py_folder)
        THEN Returned(files, IF warn_if_no_pycontrol_py_folder
                             THEN {"no_task_folder"} ELSE {})
        ELSE IF Cardinality(python_files_found) = 0
        THEN Raised("FileNotFoundError", "no_py_file", {})
        ELSE Returned(Append(files, Head(ListOf(python_files_found))), {})

\* the part after the loop: the task folder
WithTaskFile(t, files, warn_if_no_pycontrol_py_folder) ==
    LET py_folder == <<TaskFolderName>>
        python_files_found == Glob(t, py_folder, <<"*">> \o ExtPy)
    IN  IF ~PathExists(t, py_folder)
        THEN Returned(files, IF warn_if_no_pycontrol_py_folder
                             THEN {"no_task_folder"} ELSE {})
        ELSE IF Cardinality(python_files_found) > 1
        THEN Raised("ValueError", "several_py_files", {})
        ELSE IF Cardinality(python_files_found) = 0
        THEN Raised("FileNotFoundError", "no_py_file", {})
        ELSE Returned(files \o ListOf(python_files_found), {})

ValidateRawBehavioralData(t, folder_name, path_exists, subject_name, whitelisted_files_in_root, warn_if_no_pycontrol_py_folder, pads) ==
    Bind(ValidateSessionPath(folder_name, path_exists, subject_name, pads), LAMBDA sp :
    IF sp.kind # "ok" THEN sp ELSE
    Bind(WhitelistedFilesFound(t, whitelisted_files_in_root), LAMBDA wl :
    Bind(PycontrolFilesWithExtension(t, folder_name, wl, ExtPca), LAMBDA pca :
    IF pca.kind # "ok" THEN pca ELSE
    Bind(PycontrolFilesWithExtension(t, folder_name, wl, ExtTxt), LAMBDA txt :
    IF txt.kind # "ok" THEN txt ELSE
    WithTaskFile(t, pca.value \o txt.value, warn_if_no_pycontrol_py_folder)))))

----------------------------------------------------------------------------
(* validate_raw_ephys_recording, validate_raw_ephys_data_of_session *)

\* expected_endings, spikeglx_endings
SpikeglxEndings ==
    {<<".", "l", "f", ".", "m", "e", "t", "a">>, <<".", "l", "f", ".", "b", "i", "n">>,
     <<".", "a", "p", ".", "m", "e", "t", "a">>, <<".", "a", "p", ".", "b", "i", "n">>}

Imec == <<"_", "i", "m", "e", "c">>
T0 == <<"_", "t", "0", ".">>

\* re.match(rf"{recording_name}_imec\d$", name) is not None.  The recording name is
\* put in the pattern unescaped: a "." of it matches any character but the newline.
ProbeNameMatch(recording_name, name) ==
    LET n == Len(recording_name)
        rest == SubSeq(name, n + 1, Len(name))
    IN  /\ Len(name) >= n
        /\ \A i \in 1..n :
              \/ recording_name[i] = name[i]
              \/ recording_name[i] = "." /\ name[i] # LF
        /\ SubSeq(rest, 1, 5) = Imec
        /\ IsDigit(Ch(rest, 6))
        /\ (Len(rest) = 6 \/ (Len(rest) = 7 /\ rest[7] = LF))

\* the names the files of a probe folder must have
ExpectedFilenames(recording_name, probe_name) ==
    {recording_name \o T0 \o LastPiece(probe_name) \o ending : ending \in SpikeglxEndings}

\* validate_raw_ephys_recording with every file of the probe folder accepted
ValidateRawEphysRecordingSuperset(t, session_name, gid_folder_path, allowed_extensions_not_in_root) ==
    Bind(ExtractGid(Name(gid_folder_path)), LAMBDA gid :
    IF gid.kind # "ok" THEN gid
    ELSE IF Name(gid_folder_path) # session_name \o US \o gid.value
    THEN Raised("ValueError", "recording_name", {})
    ELSE IF ~IsDir(t, gid_folder_path)
    THEN Raised("NotADirectoryError", "recording_folder", {})
    ELSE
    LET kept == {c \in IterDir(t, gid_folder_path) :
                    /\ ~GlobMatch(<<".", "*">>, Name(c))
                    /\ Suffix(Name(c)) \notin allowed_extensions_not_in_root}
    IN  IF \E c \in kept : ~IsDir(t, c)
        THEN Raised("ValueError", "only_folders", {})
        ELSE IF \E pf \in kept : ~ProbeNameMatch(Name(gid_folder_path), Name(pf))
        THEN Raised("ValueError", "probe_name", {})
        ELSE IF \E pf \in kept :
                  ~(ExpectedFilenames(Name(gid_folder_path), Name(pf))
                        \subseteq {Name(q) : q \in IterDir(t, pf)})
        THEN Raised("ValueError", "probe_files", {})
        ELSE Returned(True, {}))

\* gid_folder_path is a child of session_path, so gid_folder_path.parent.name is
\* the session folder's name
ValidateRawEphysRecording(t, session_name, gid_folder_path, allowed_extensions_not_in_root) ==
    Bind(ExtractGid(Name(gid_folder_path)), LAMBDA gid :
    IF gid.kind # "ok" THEN gid
    ELSE IF Name(gid_folder_path) # session_name \o US \o gid.value
    THEN Raised("ValueError", "recording_name", {})
    ELSE IF ~IsDir(t, gid_folder_path)
    THEN Raised("NotADirectoryError", "recording_folder", {})
    ELSE
    LET kept == {c \in IterDir(t, gid_folder_path) :
                    /\ ~GlobMatch(<<".", "*">>, Name(c))
                    /\ Suffix(Name(c)) \notin allowed_extensions_not_in_root}
        \* every kept child is a directory once the first loop has passed
        probe_subfolders == kept
    IN  IF \E c \in kept : ~IsDir(t, c)
        THEN Raised("ValueError", "only_folders", {})
        ELSE IF \E pf \in probe_subfolders :
                  ~ProbeNameMatch(Name(gid_folder_path), Name(pf))
        THEN Raised("ValueError", "probe_name", {})
        ELSE IF \E pf \in probe_subfolders :
                  {Name(q) : q \in IterDir(t, pf)}
                      # ExpectedFilenames(Name(gid_folder_path), Name(pf))
        THEN Raised("ValueError", "probe_files", {})
        ELSE Returned(True, {}))

\* session_path.glob("*_g?"), as a set
RecordingFolderGlob(t) == Glob(t, <<>>, <<"*", "_", "g", "?">>)

\* _find_spikeglx_recording_folders_in_session: the list of the glob, in the order
\* of the scan (the warning for several recordings is added by the caller below)
FindSpikeglxRecordingFolders(t, scan) ==
    SelectSeq(scan, LAMBDA q : q \in RecordingFolderGlob(t))

\* the regular files at any depth below folder
FilesBelow(t, folder) ==
    {q \in Paths(t) : IsFile(t, q) /\ Len(q) > Len(folder) /\ IsRelativeTo(q, folder)}

RECURSIVE FilesOfFolders(_, _)
\* [p for folder in folders for p in folder.glob("**/*") if p.is_file()]
FilesOfFolders(t, folders) ==
    IF folders = <<>> THEN <<>>
    ELSE ListOf(FilesBelow(t, Head(folders))) \o FilesOfFolders(t, Tail(folders))

WithWarnings(out, w) == [out EXCEPT !.warnings = @ \cup w]

\* the search for recording files with session_path.glob("*" + ending): the root only
StrayRecordingFilesInRoot(t, recording_folder_paths) ==
    {q \in UNION {Glob(t, <<>>, <<"*">> \o ending) : ending \in SpikeglxEndings} :
        ~\E r \in Range(recording_folder_paths) : IsRelativeTo(q, r)}

\* the entries session_path.glob("**/*" + ending) finds, for the four endings, that
\* are in none of the recording folders
StrayRecordingFiles(t, recording_folder_paths) ==
    {q \in UNION {RGlob(t, <<>>, <<"*">> \o ending) : ending \in SpikeglxEndings} :
        ~\E r \in Range(recording_folder_paths) : IsRelativeTo(q, r)}

\* validate_raw_ephys_data_of_session with the first recording folder of the scan
\* taken for the only one
ValidateRawEphysDataFirstFolder(t, scan, folder_name, path_exists, subject_name, allowed_extensions_not_in_root, pads) ==
    Bind(ValidateSessionPath(folder_name, path_exists, subject_name, pads), LAMBDA sp :
    IF sp.kind # "ok" THEN sp ELSE
    Bind(FindSpikeglxRecordingFolders(t, scan), LAMBDA recording_folder_paths :
    LET w == IF Len(recording_folder_paths) > 1 THEN {"multiple_recordings"} ELSE {}
        first_folder == SubSeq(recording_folder_paths, 1, 1)
        Check(i) == ValidateRawEphysRecording(t, folder_name, first_folder[i],
                                              allowed_extensions_not_in_root)
        failing == {i \in 1..Len(first_folder) : Check(i).kind # "ok"}
        stray == StrayRecordingFiles(t, recording_folder_paths)
    IN  IF failing # {} THEN WithWarnings(Check(1), w)
        ELSE IF stray # {} THEN Raised("ValueError", "stray_recording_file", w)
        ELSE Returned(FilesOfFolders(t, first_folder), w)))

ValidateRawEphysData(t, scan, folder_name, path_exists, subject_name, allowed_extensions_not_in_root, pads) ==
    Bind(ValidateSessionPath(folder_name, path_exists, subject_name, pads), LAMBDA sp :
    IF sp.kind # "ok" THEN sp ELSE
    Bind(FindSpikeglxRecordingFolders(t, scan), LAMBDA recording_folder_paths :
    LET w == IF Len(recording_folder_paths) > 1 THEN {"multiple_recordings"} ELSE {}
        Check(i) == ValidateRawEphysRecording(t, folder_name, recording_folder_paths[i],
                                              allowed_extensions_not_in_root)
        failing == {i \in 1..Len(recording_folder_paths) : Check(i).kind # "ok"}
        first == CHOOSE i \in failing : \A j \in failing : i <= j
        stray == StrayRecordingFiles(t, recording_folder_paths)
    IN  IF failing # {} THEN WithWarnings(Check(first), w)
        ELSE IF stray # {} THEN Raised("ValueError", "stray_recording_file", w)
        ELSE Returned(FilesOfFolders(t, recording_folder_paths), w)))

----------------------------------------------------------------------------
(* validate_raw_videos_of_session *)

ExtAvi == <<".", "a", "v", "i">>
MetadataCsv == <<"m", "e", "t", "a", "d", "a", "t", "a", ".", "c", "s", "v">>
CamerasSuffix == <<"_", "c", "a", "m", "e", "r", "a", "s">>
CameraPrefix == <<"_", "c", "a", "m", "e", "r", "a", "_">>

\* the checks of the video folder without the one for entries beside metadata.csv
VideoFolderCheckMetadataPresent(t, session_name, video_folder_path) ==
    LET avi_files == Glob(t, video_folder_path, <<"*">> \o ExtAvi)
        remaining_files_in_folder == IterDir(t, video_folder_path) \ avi_files
    IN  IF avi_files = {} THEN Raised("FileNotFoundError", "no_video_files", {})
        ELSE IF \E a \in avi_files : ~StartsWith(Name(a), session_name \o CameraPrefix)
        THEN Raised("ValueError", "video_name", {})
        ELSE IF (video_folder_path \o <<MetadataCsv>>) \notin remaining_files_in_folder
        THEN Raised("FileNotFoundError", "no_metadata", {})
        ELSE Returned(True, {})

\* the checks made of the video folder when it exists
VideoFolderCheck(t, session_name, video_folder_path) ==
    LET avi_files == Glob(t, video_folder_path, <<"*">> \o ExtAvi)
        remaining_files_in_folder == IterDir(t, video_folder_path) \ avi_files
    IN  IF avi_files = {} THEN Raised("FileNotFoundError", "no_video_files", {})
        ELSE IF \E a \in avi_files : ~StartsWith(Name(a), session_name \o CameraPrefix)
        THEN Raised("ValueError", "video_name", {})
        ELSE IF (video_folder_path \o <<MetadataCsv>>) \notin remaining_files_in_folder
        THEN Raised("FileNotFoundError", "no_metadata", {})
        ELSE IF Cardinality(remaining_files_in_folder) > 1
        THEN Raised("ValueError", "unexpected_in_video_folder", {})
        ELSE Returned(True, {})

\* the searches made only when the video folder exists
VideoStrayCheckInFolderBranch(t, video_folder_path) ==
    IF ~PathExists(t, video_folder_path) THEN Returned(True, {})
    ELSE IF \E a \in RGlob(t, <<>>, <<"*">> \o ExtAvi) : ~IsRelativeTo(a, video_folder_path)
    THEN Raised("ValueError", "stray_avi", {})
    ELSE IF \E m \in RGlob(t, <<>>, MetadataCsv) : ~IsRelativeTo(m, video_folder_path)
    THEN Raised("ValueError", "stray_metadata", {})
    ELSE Returned(True, {})

\* the searches of the whole session for video files and metadata.csv elsewhere
VideoStrayCheck(t, video_folder_path) ==
    IF \E a \in RGlob(t, <<>>, <<"*">> \o ExtAvi) : ~IsRelativeTo(a, video_folder_path)
    THEN Raised("ValueError", "stray_avi", {})
    ELSE IF \E m \in RGlob(t, <<>>, MetadataCsv) : ~IsRelativeTo(m, video_folder_path)
    THEN Raised("ValueError", "stray_metadata", {})
    ELSE Returned(True, {})

ValidateRawVideos(t, folder_name, path_exists, subject_name, warn_if_no_video_folder, pads) ==
    Bind(ValidateSessionPath(folder_name, path_exists, subject_name, pads), LAMBDA sp :
    IF sp.kind # "ok" THEN sp ELSE
    LET video_folder_path == <<folder_name \o CamerasSuffix>>
        video_folder_exists == PathExists(t, video_folder_path)
        w == IF ~video_folder_exists /\ warn_if_no_video_folder
             THEN {"no_video_folder"} ELSE {}
    IN  Bind(IF video_folder_exists
             THEN VideoFolderCheck(t, folder_name, video_folder_path)
             ELSE Returned(True, {}), LAMBDA folder :
        IF folder.kind # "ok" THEN folder ELSE
        Bind(VideoStrayCheck(t, video_folder_path), LAMBDA stray :
        IF stray.kind # "ok" THEN WithWarnings(stray, w)
        ELSE IF video_folder_exists
        THEN Returned(ListOf(FilesBelow(t, video_folder_path)), w)
        ELSE Returned(<<>>, w))))

----------------------------------------------------------------------------
(* validate_raw_session *)

\* validate_raw_session validating the three data types whatever the toggles, and
\* returning the lists of those that are on
ValidateRawSessionAllChecked(t, scan, folder_name, path_exists, subject_name, include_behavior, include_ephys, include_videos, whitelisted_files_in_root, allowed_extensions_not_in_root, pads) ==
    Bind(ValidateRawBehavioralData(t, folder_name, path_exists, subject_name,
                                   whitelisted_files_in_root, TRUE, pads), LAMBDA behavior :
    IF behavior.kind # "ok" THEN behavior ELSE
    Bind(ValidateRawEphysData(t, scan, folder_name, path_exists, subject_name,
                              allowed_extensions_not_in_root, pads), LAMBDA ephys :
    IF ephys.kind # "ok" THEN WithWarnings(ephys, behavior.warnings) ELSE
    Bind(ValidateRawVideos(t, folder_name, path_exists, subject_name, TRUE, pads),
         LAMBDA videos :
    IF videos.kind # "ok"
    THEN WithWarnings(videos, behavior.warnings \cup ephys.warnings)
    ELSE Returned(<<IF include_behavior THEN behavior.value ELSE <<>>,
                    IF include_ephys THEN ephys.value ELSE <<>>,
                    IF include_videos THEN videos.value ELSE <<>>>>,
                  behavior.warnings \cup ephys.warnings \cup videos.warnings))))

ValidateRawSession(t, scan, folder_name, path_exists, subject_name, include_behavior, include_ephys, include_videos, whitelisted_files_in_root, allowed_extensions_not_in_root, pads) ==
    Bind(IF include_behavior
         THEN ValidateRawBehavioralData(t, folder_name, path_exists, subject_name,
                                        whitelisted_files_in_root, TRUE, pads)
         ELSE Returned(<<>>, {}), LAMBDA behavior :
    IF behavior.kind # "ok" THEN behavior ELSE
    Bind(IF include_ephys
         THEN ValidateRawEphysData(t, scan, folder_name, path_exists, subject_name,
                                   allowed_extensions_not_in_root, pads)
         ELSE Returned(<<>>, {}), LAMBDA ephys :
    IF ephys.kind # "ok" THEN WithWarnings(ephys, behavior.warnings) ELSE
    Bind(IF include_videos
         THEN ValidateRawVideos(t, folder_name, path_exists, subject_name, TRUE, pads)
         ELSE Returned(<<>>, {}), LAMBDA videos :
    IF videos.kind # "ok"
    THEN WithWarnings(videos, behavior.warnings \cup ephys.warnings)
    ELSE Returned(<<behavior.value, ephys.value, videos.value>>,
                  behavior.warnings \cup ephys.warnings \cup videos.warnings))))

----------------------------------------------------------------------------
(* Folder names given to the name validators *)

Subject == <<"M", "1", "6">>
ShortSubject == <<"M", "1">>
Subjects == {Subject, ShortSubject}

CanonicalDate == <<"2", "0", "2", "3", "_", "0", "8", "_", "1", "5", "_", "1", "6", "_", "0", "0">>

UnpaddedMonthDate == <<"2", "0", "2", "3", "_", "8", "_", "1", "5", "_", "1", "6", "_", "0", "0">>

YearTexts ==
    {<<"2", "0", "2", "3">>, <<"2", "0", "2", "4">>, <<"0", "9", "9", "9">>,
     <<"0", "0", "0", "0">>, <<"2", "0", "2">>, <<"2", "0", UDigit, "3">>}
MonthTexts == {<<"0", "8">>, <<"8">>, <<"0", "2">>, <<"1", "3">>}
DayTexts == {<<"1", "5">>, <<"5">>, <<" ", "5">>, <<"2", "9">>, <<"3", "1">>, <<"0", "0">>}
HourTexts == {<<"1", "6">>, <<"6">>, <<"2", "4">>}
MinuteTexts == {<<"0", "0">>, <<"7">>, <<"6", "0">>}

DateTexts ==
    {Join(<<y, m, d, h, mi>>, US) :
        y \in YearTexts, m \in MonthTexts, d \in DayTexts, h \in HourTexts,
        mi \in MinuteTexts}
    \cup {CanonicalDate \o <<LF>>, CanonicalDate \o US, SubSeq(CanonicalDate, 1, 13),
          <<"2", "0", "2", "3", "-", "0", "8", "-", "1", "5", "-", "1", "6", "-", "0", "0">>,
          <<>>}

GidTails ==
    {<<"_", "g", AsciiDigits[v + 1]>> : v \in 0..9}
    \cup {<<"_", "g", UDigit>>, <<"_", "g", "x">>, <<"_", "g">>, <<"_", "g", "1", "2">>,
          <<"g", "1">>, <<"_", "G", "1">>, <<"_", "g", "1", LF>>, <<"_", "g", "1", "_">>,
          <<"_", "g", "1", LF, LF>>, <<"_", "g", "1", "_", "g", "2">>,
          <<"n", "o", "_", "g", "i", "d", "_", "h", "e", "r", "e">>}

FolderNames ==
    {Subject \o US \o d : d \in DateTexts}
    \cup {p \o s \o CanonicalDate :
            p \in {Subject, ShortSubject, <<"X", "9">>, <<>>}, s \in {US, <<"-">>, <<>>}}
    \cup {Subject, ShortSubject, Subject \o US}
    \cup {b \o t : b \in {Subject \o US \o CanonicalDate, <<"a">>, <<>>}, t \in GidTails}

----------------------------------------------------------------------------
(* The name validators applied to a folder name *)

InitNames ==
    /\ sessionName \in FolderNames
    /\ exists \in BOOLEAN
    /\ padsYear \in BOOLEAN
    /\ tree = {}
    /\ scanOrder = <<>>
    /\ writes = 0
    /\ last = NoCall
    /\ repeated = FALSE

CallValidateSessionPath ==
    \E subject \in Subjects :
        /\ last' = [op |-> "validate_session_path", args |-> <<subject>>,
                    out |-> ValidateSessionPath(sessionName, exists, subject, padsYear)]
        /\ repeated' = (last.op = "validate_session_path" /\ last.args = <<subject>>)
        /\ UNCHANGED <<sessionName, exists, padsYear, tree, scanOrder, writes>>

CallExtractGid ==
    /\ last' = [op |-> "extract_gid", args |-> <<>>, out |-> ExtractGid(sessionName)]
    /\ repeated' = (last.op = "extract_gid")
    /\ UNCHANGED <<sessionName, exists, padsYear, tree, scanOrder, writes>>

NextNames == CallValidateSessionPath \/ CallExtractGid

SpecNames == InitNames /\ [][NextNames]_vars

----------------------------------------------------------------------------
(* Session trees: what the acquisition leaves in a session folder, and the
   writes made to it between validator calls *)

\* the writes made to a session folder before it is validated
MaxWrites == 2

File(p) == [path |-> p, dir |-> FALSE]
Dir(p) == [path |-> p, dir |-> TRUE]

SessionNames == {Subject \o US \o CanonicalDate, Subject \o US \o UnpaddedMonthDate}

\* behavioural data
PcaOf(s, n, axis) == s \o MotSen \o <<n, "-", axis>> \o ExtPca
TaskPy == <<"t", "a", "s", "k">> \o ExtPy
OldPy == <<"o", "l", "d">> \o ExtPy
CommentTxt == <<"c", "o", "m", "m", "e", "n", "t">> \o ExtTxt

BehaviorEntries(s) ==
    {File(<<PcaOf(s, "1", "X")>>), File(<<PcaOf(s, "1", "Y")>>), File(<<s \o ExtTxt>>),
     Dir(<<TaskFolderName>>), File(<<TaskFolderName, TaskPy>>)}

\* recordings
RecName(s, g) == s \o <<"_", "g", g>>
ProbeName(s, g, i) == RecName(s, g) \o Imec \o <<i>>
ProbeFileName(s, g, i, ending) == RecName(s, g) \o T0 \o <<"i", "m", "e", "c", i>> \o ending
ProbePath(s, g, i) == <<RecName(s, g), ProbeName(s, g, i)>>

ProbeEntries(s, g, i) ==
    {Dir(ProbePath(s, g, i))}
    \cup {File(ProbePath(s, g, i) \o <<ProbeFileName(s, g, i, ending)>>) :
            ending \in SpikeglxEndings}

EphysEntries(s) ==
    {Dir(<<RecName(s, "0")>>)} \cup ProbeEntries(s, "0", "0") \cup ProbeEntries(s, "0", "1")

\* videos
CamerasName(s) == s \o CamerasSuffix
VideoName(s, n) == s \o CameraPrefix \o <<n>> \o ExtAvi

VideoEntries(s) ==
    {Dir(<<CamerasName(s)>>), File(<<CamerasName(s), VideoName(s, "1")>>),
     File(<<CamerasName(s), VideoName(s, "2")>>), File(<<CamerasName(s), MetadataCsv>>)}

\* a session as acquired, its entries named after the session folder
AcquiredTree(s) == BehaviorEntries(s) \cup EphysEntries(s) \cup VideoEntries(s)

NotesTxt == <<"n", "o", "t", "e", "s">> \o ExtTxt
ApBin == <<".", "a", "p", ".", "b", "i", "n">>
LfMeta == <<".", "l", "f", ".", "m", "e", "t", "a">>

\* the entries a write to the behavioural data adds or removes
BehaviorPool(s) ==
    BehaviorEntries(s)
    \cup {File(<<PcaOf(s, "2", "X")>>), File(<<<<"b", "a", "d">> \o ExtPca>>),
          File(<<s \o <<"_", "b">> \o ExtTxt>>), File(<<CommentTxt>>),
          File(<<TaskFolderName, OldPy>>)}

\* the entries a write to the recordings adds or removes
EphysPool(s) ==
    {Dir(<<RecName(s, "0")>>), Dir(ProbePath(s, "0", "1"))}
    \cup {File(ProbePath(s, "0", "0") \o <<ProbeFileName(s, "0", "0", ending)>>) :
            ending \in SpikeglxEndings}
    \cup {File(ProbePath(s, "0", "0") \o <<NotesTxt>>),
          Dir(ProbePath(s, "0", "0") \o <<ProbeName(s, "0", "0") \o
                  <<"_", "k", "i", "l", "o", "s", "o", "r", "t">>>>),
          File(<<RecName(s, "0"), NotesTxt>>),
          File(<<RecName(s, "0"), <<".", "h">>>>),
          Dir(<<RecName(s, "0"), <<"i", "m", "e", "c", "0">>>>),
          Dir(<<RecName(s, "1")>>),
          File(<<RecName(s, "1"), <<".", "h">>>>),
          Dir(<<RecName(s, "x")>>),
          File(<<RecName(s, "2")>>),
          File(<<TaskFolderName, <<"x">> \o LfMeta>>)}

\* the entries a write to the videos adds or removes
VideoPool(s) ==
    VideoEntries(s)
    \cup {File(<<CamerasName(s), <<"b", "a", "d">> \o ExtAvi>>),
          File(<<CamerasName(s), NotesTxt>>),
          File(<<<<"x">> \o ExtAvi>>),
          File(<<MetadataCsv>>),
          File(<<TaskFolderName, <<"x">> \o ExtAvi>>),
          File(<<RecName(s, "0"), MetadataCsv>>)}

\* the entries a write adds or removes when whole sessions are validated
SessionPool(s) ==
    {File(<<PcaOf(s, "1", "Y")>>), Dir(<<TaskFolderName>>),
     Dir(<<RecName(s, "0")>>), Dir(<<RecName(s, "1")>>), File(<<<<"x">> \o ApBin>>),
     Dir(<<CamerasName(s)>>), File(<<<<"x">> \o ExtAvi>>)}

Whitelists == {{}, {CommentTxt}}
AllowedExtensionSets == {{}, {ExtTxt}}

InitTree ==
    /\ sessionName \in SessionNames
    /\ exists = TRUE
    /\ padsYear = FALSE      \* the years of SessionNames have four digits
    /\ tree = AcquiredTree(sessionName)
    /\ scanOrder = <<<<RecName(sessionName, "0")>>>>
    /\ writes = 0
    /\ last = NoCall
    /\ repeated = FALSE

InsertAt(seq, k, x) == SubSeq(seq, 1, k) \o <<x>> \o SubSeq(seq, k + 1, Len(seq))

\* The scan orders of the *_g? entries after a write: the entries that stay keep
\* their order, a new one is listed at any place.
ScanOrdersAfter(scan, t) ==
    LET kept == SelectSeq(scan, LAMBDA q : q \in RecordingFolderGlob(t))
        new == RecordingFolderGlob(t) \ Range(kept)
    IN  IF new = {} THEN {kept}
        ELSE {InsertAt(kept, k, x) : k \in 0..Len(kept), x \in new}

\* A write by the experimenter or the acquisition software: a missing entry of the
\* pool is created in an existing directory, a present one is removed with all
\* that is below it.  The results of earlier calls were for another tree.
Write(pool) ==
    \E e \in pool :
        /\ exists
        /\ writes < MaxWrites
        /\ \/ e \in tree
           \/ e.path \notin Paths(tree) /\ IsDir(tree, Parent(e.path))
        /\ tree' = IF e \in tree
                   THEN {x \in tree : ~IsRelativeTo(x.path, e.path)}
                   ELSE tree \cup {e}
        /\ scanOrder' \in ScanOrdersAfter(scanOrder, tree')
        /\ writes' = writes + 1
        /\ last' = NoCall
        /\ repeated' = FALSE
        /\ UNCHANGED <<sessionName, exists, padsYear>>

\* a call returns: its record replaces the latest one
Return(op, args, out) ==
    /\ last' = [op |-> op, args |-> args, out |-> out]
    /\ repeated' = (last.op = op /\ last.args = args)
    /\ UNCHANGED <<sessionName, exists, padsYear, tree, scanOrder, writes>>

----------------------------------------------------------------------------
(* Behavioural data validated *)

WriteBehavior == Write(BehaviorPool(sessionName))

CallValidateRawBehavioralData ==
    \E whitelist \in Whitelists, warn \in BOOLEAN :
        Return("validate_raw_behavioral_data_of_session", <<Subject, whitelist, warn>>,
               ValidateRawBehavioralData(tree, sessionName, exists, Subject, whitelist,
                                         warn, padsYear))

NextBehavior == WriteBehavior \/ CallValidateRawBehavioralData

SpecBehavior == InitTree /\ [][NextBehavior]_vars

----------------------------------------------------------------------------
(* Recordings validated *)

WriteEphys == Write(EphysPool(sessionName))

CallValidateRawEphysRecording ==
    \E gid_folder_path \in RecordingFolderGlob(tree),
       allowed \in AllowedExtensionSets :
        Return("validate_raw_ephys_recording", <<gid_folder_path, allowed>>,
               ValidateRawEphysRecording(tree, sessionName, gid_folder_path, allowed))

CallValidateRawEphysData ==
    \E allowed \in AllowedExtensionSets :
        Return("validate_raw_ephys_data_of_session", <<Subject, allowed>>,
               ValidateRawEphysData(tree, scanOrder, sessionName, exists, Subject, allowed,
                                    padsYear))

NextEphys == WriteEphys \/ CallValidateRawEphysRecording \/ CallValidateRawEphysData

SpecEphys == InitTree /\ [][NextEphys]_vars

----------------------------------------------------------------------------
(* Videos validated *)

WriteVideo == Write(VideoPool(sessionName))

CallValidateRawVideos ==
    \E warn \in BOOLEAN :
        Return("validate_raw_videos_of_session", <<Subject, warn>>,
               ValidateRawVideos(tree, sessionName, exists, Subject, warn, padsYear))

NextVideo == WriteVideo \/ CallValidateRawVideos

SpecVideo == InitTree /\ [][NextVideo]_vars

----------------------------------------------------------------------------
(* Whole sessions validated, call after call *)

InitSession ==
    /\ sessionName \in SessionNames
    /\ exists \in BOOLEAN
    /\ padsYear = FALSE
    /\ tree = IF exists THEN AcquiredTree(sessionName) ELSE {}
    /\ scanOrder = IF exists THEN <<<<RecName(sessionName, "0")>>>> ELSE <<>>
    /\ writes = 0
    /\ last = NoCall
    /\ repeated = FALSE

WriteSession == Write(SessionPool(sessionName))

\* validate_raw_session run after renaming the session's files, its validation made
\* of the renamed tree
RenamingValidateRawSession ==
    \E include_behavior \in BOOLEAN, include_ephys \in BOOLEAN, include_videos \in BOOLEAN :
        LET renamed == {e \in tree : e.path # <<sessionName \o ExtTxt>>}
                        \cup {File(<<sessionName \o <<"_", "b">> \o ExtTxt>>)}
        IN  /\ exists
            /\ last' = [op |-> "validate_raw_session",
                        args |-> <<Subject, include_behavior, include_ephys,
                                   include_videos, {CommentTxt}, {ExtTxt}>>,
                        out |-> ValidateRawSession(renamed, scanOrder, sessionName, exists,
                                    Subject, include_behavior, include_ephys,
                                    include_videos, {CommentTxt}, {ExtTxt}, padsYear)]
            /\ repeated' = (/\ last.op = "validate_raw_session"
                            /\ last.args = <<Subject, include_behavior, include_ephys,
                                             include_videos, {CommentTxt}, {ExtTxt}>>)
            /\ tree' = renamed
            /\ UNCHANGED <<sessionName, exists, padsYear, scanOrder, writes>>

AgainValidateRawSession ==
    \E include_behavior \in BOOLEAN, include_ephys \in BOOLEAN, include_videos \in BOOLEAN :
        Return("validate_raw_session",
                    <<Subject, include_behavior, include_ephys, include_videos,
                      {CommentTxt}, {ExtTxt}>>,
                    ValidateRawSession(tree, scanOrder, sessionName, exists, Subject,
                                       include_behavior, include_ephys, include_videos,
                                       {CommentTxt}, {ExtTxt}, padsYear))

AgainValidateSessionPath ==
    Return("validate_session_path", <<Subject>>,
                ValidateSessionPath(sessionName, exists, Subject, padsYear))

AgainValidateRawBehavioralData ==
    Return("validate_raw_behavioral_data_of_session", <<Subject, {CommentTxt}, TRUE>>,
                ValidateRawBehavioralData(tree, sessionName, exists, Subject, {CommentTxt},
                                          TRUE, padsYear))

AgainValidateRawEphysData ==
    Return("validate_raw_ephys_data_of_session", <<Subject, {ExtTxt}>>,
                ValidateRawEphysData(tree, scanOrder, sessionName, exists, Subject,
                                     {ExtTxt}, padsYear))

AgainValidateRawVideos ==
    Return("validate_raw_videos_of_session", <<Subject, TRUE>>,
                ValidateRawVideos(tree, sessionName, exists, Subject, TRUE, padsYear))

NextSession ==
    \/ WriteSession
    \/ AgainValidateRawSession
    \/ AgainValidateSessionPath
    \/ AgainValidateRawBehavioralData
    \/ AgainValidateRawEphysData
    \/ AgainValidateRawVideos

SpecSession == InitSession /\ [][NextSession]_vars

----------------------------------------------------------------------------
(* Claims on the name validators, under SpecNames *)

\* the part of the folder name after "{subject}_"
DateSuffix(name, subject) == Slice(name, Len(subject) + 2, Len(name))

\* parsing s and reformatting the parsed date reproduces s character for character
RoundTrips(s, pads) == Strptime(s).ok /\ Strftime(Strptime(s), pads) = s

\* s is sixteen characters: ASCII digits in the widths 4, 2, 2, 2, 2 with "_" between
FixedWidthDate(s) ==
    /\ Len(s) = 16
    /\ \A i \in 1..16 :
          IF i \in {5, 8, 11, 14} THEN s[i] = "_" ELSE s[i] \in DigitRange(0, 9)

\* C1: on an existing directory named {subject}_{date}, validate_session_path
\* returns True exactly when the date suffix round-trips through %Y_%m_%d_%H_%M
\* (it is then in the fixed-width form), and fails with ValueError for every suffix
\* that parses without round-tripping (2023_8_15_16_00) or does not parse.
C1_RoundTripDecides ==
    (last.op = "validate_session_path" /\ exists
        /\ StartsWith(sessionName, last.args[1] \o US)) =>
    LET suffix == DateSuffix(sessionName, last.args[1])
    IN  /\ (last.out.kind = "ok") <=> RoundTrips(suffix, padsYear)
        /\ last.out.kind = "ok" => last.out.value = True /\ FixedWidthDate(suffix)
        /\ ~RoundTrips(suffix, padsYear) => last.out.kind = "ValueError"
        /\ (Strptime(suffix).ok /\ ~RoundTrips(suffix, padsYear))
              => last.out.detail = "date_not_canonical"
        /\ suffix = UnpaddedMonthDate => last.out.kind = "ValueError"

\* C1 witness: the call on {subject}_2023_8_15_16_00, whose suffix parses and does
\* not round-trip, has failed with ValueError
C1_Witness ==
    /\ last.op = "validate_session_path" /\ exists
    /\ sessionName = last.args[1] \o US \o UnpaddedMonthDate
    /\ Strptime(UnpaddedMonthDate).ok
    /\ last.out.kind = "ValueError"

AllDigits == DigitRange(0, 9) \cup {UDigit}

\* C2 as stated: a folder name ending in _g and one digit d gives the string d
\* alone, any other folder name fails with ValueError.
C2_ReturnsDigitAlone ==
    last.op = "extract_gid" =>
        IF \E d \in AllDigits : EndsWith(sessionName, <<"_", "g", d>>)
        THEN /\ last.out.kind = "ok"
             /\ last.out.value = <<sessionName[Len(sessionName)]>>
        ELSE last.out.kind = "ValueError"

\* C2 amended: a folder name ending in _g and one decimal digit d, or in that token
\* and one final newline, gives the two characters g d; any other folder name
\* fails with ValueError.
C2_ReturnsGAndDigit ==
    last.op = "extract_gid" =>
        LET stem == IF EndsWith(sessionName, <<LF>>)
                    THEN SubSeq(sessionName, 1, Len(sessionName) - 1)
                    ELSE sessionName
        IN  IF \E d \in AllDigits : EndsWith(stem, <<"_", "g", d>>)
            THEN /\ last.out.kind = "ok"
                 /\ last.out.value = <<"g", stem[Len(stem)]>>
            ELSE last.out.kind = "ValueError"

\* C2 witness: extract_gid of a session name followed by _g1 has returned g1
C2_Witness ==
    /\ last.op = "extract_gid"
    /\ sessionName = Subject \o US \o CanonicalDate \o <<"_", "g", "1">>
    /\ last.out.kind = "ok"
    /\ last.out.value = <<"g", "1">>

\* C9: validate_session_path fails with FileNotFoundError when the path does not
\* exist, and with ValueError, never another error, for every existing path whose
\* folder name is not {subject}_{canonical date}.
C9_FormatErrorOnly ==
    last.op = "validate_session_path" =>
        /\ ~exists => last.out.kind = "FileNotFoundError"
        /\ (exists /\ ~(/\ StartsWith(sessionName, last.args[1] \o US)
                         /\ RoundTrips(DateSuffix(sessionName, last.args[1]), padsYear)))
              => last.out.kind = "ValueError"

\* folder_name is {subject}_{date} with a date that round-trips
ValidSessionName(name, subject, pads) ==
    StartsWith(name, subject \o US) /\ RoundTrips(DateSuffix(name, subject), pads)

----------------------------------------------------------------------------
(* Claims on the recordings, under SpecEphys *)

\* the children of the recording folder that are neither hidden nor of an allowed
\* extension, by kind
KeptChildren(t, rec, allowed) ==
    {c \in Paths(t) : /\ Len(c) = Len(rec) + 1 /\ Parent(c) = rec
                      /\ Name(c)[1] # "."
                      /\ ~\E ext \in allowed : EndsWith(Name(c), ext)}

ProbeSubfolders(t, rec, allowed) == {c \in KeptChildren(t, rec, allowed) : Dir(c) \in t}

LooseFiles(t, rec, allowed) == {c \in KeptChildren(t, rec, allowed) : File(c) \in t}

\* the recording folder is a directory named {session}_g{d} and its probe subfolders
\* are named {recording}_imec{d}
CorrectlyNamedRecording(t, session_name, rec, allowed) ==
    /\ Dir(rec) \in t
    /\ \E d \in AllDigits : Name(rec) = session_name \o <<"_", "g", d>>
    /\ \A pf \in ProbeSubfolders(t, rec, allowed) :
          \E d \in AllDigits : Name(pf) = Name(rec) \o <<"_", "i", "m", "e", "c", d>>

\* {recording}_t0.imec{d} followed by each of the four endings
FourNames(recording_name, probe_name) ==
    {recording_name \o <<"_", "t", "0", ".", "i", "m", "e", "c",
                         probe_name[Len(probe_name)]>> \o ending :
        ending \in {<<".", "l", "f", ".", "m", "e", "t", "a">>,
                    <<".", "l", "f", ".", "b", "i", "n">>,
                    <<".", "a", "p", ".", "m", "e", "t", "a">>,
                    <<".", "a", "p", ".", "b", "i", "n">>}}

EntryNames(t, folder) ==
    {Name(q) : q \in {x \in Paths(t) : Len(x) = Len(folder) + 1 /\ Parent(x) = folder}}

AllProbesHoldFourFiles(t, rec, allowed) ==
    \A pf \in ProbeSubfolders(t, rec, allowed) :
        EntryNames(t, pf) = FourNames(Name(rec), Name(pf))

\* C3 as stated: for a correctly named recording folder with correctly named probe
\* subfolders, validate_raw_ephys_recording succeeds exactly when every probe
\* subfolder holds the four expected names and nothing else.
C3_FourFilesDecide ==
    (/\ last.op = "validate_raw_ephys_recording"
     /\ CorrectlyNamedRecording(tree, sessionName, last.args[1], last.args[2])) =>
        ((last.out.kind = "ok")
            <=> AllProbesHoldFourFiles(tree, last.args[1], last.args[2]))

\* C3 amended: for a correctly named recording folder with correctly named probe
\* subfolders and no file beside them other than hidden files and files of an
\* allowed extension, validate_raw_ephys_recording returns True exactly when every
\* probe subfolder holds the four expected names and nothing else; with a name
\* missing or an entry added (a file, a kilosort subdirectory) it fails with
\* ValueError; a file beside the probe subfolders fails it whatever they hold.
C3_FourFilesDecideWithoutLooseFiles ==
    (/\ last.op = "validate_raw_ephys_recording"
     /\ CorrectlyNamedRecording(tree, sessionName, last.args[1], last.args[2])) =>
        IF LooseFiles(tree, last.args[1], last.args[2]) = {}
        THEN /\ (last.out.kind = "ok")
                    <=> AllProbesHoldFourFiles(tree, last.args[1], last.args[2])
             /\ last.out.kind = "ok" => last.out.value = True
             /\ last.out.kind # "ok" => last.out.kind = "ValueError"
        ELSE last.out.kind = "ValueError"

\* C3 witness: a correctly named recording without loose files, one of whose probe
\* subfolders lacks one of the four files, has failed with ValueError
C3_Witness ==
    /\ last.op = "validate_raw_ephys_recording"
    /\ CorrectlyNamedRecording(tree, sessionName, last.args[1], last.args[2])
    /\ LooseFiles(tree, last.args[1], last.args[2]) = {}
    /\ \E pf \in ProbeSubfolders(tree, last.args[1], last.args[2]) :
          /\ EntryNames(tree, pf) \subseteq FourNames(Name(last.args[1]), Name(pf))
          /\ Cardinality(EntryNames(tree, pf)) = 3
    /\ last.out.kind = "ValueError"

\* the entries of the session root named *_g?
DiscoveredRecordingFolders(t) ==
    {q \in Paths(t) : /\ Len(q) = 1 /\ Len(q[1]) >= 3
                      /\ SubSeq(q[1], Len(q[1]) - 2, Len(q[1]) - 1) = <<"_", "g">>}

HasRecordingEnding(name) ==
    \E ending \in {<<".", "l", "f", ".", "m", "e", "t", "a">>,
                   <<".", "l", "f", ".", "b", "i", "n">>,
                   <<".", "a", "p", ".", "m", "e", "t", "a">>,
                   <<".", "a", "p", ".", "b", "i", "n">>} : EndsWith(name, ending)

\* the files with a recording ending, at any depth, outside the discovered folders
RecordingFilesOutside(t) ==
    {q \in Paths(t) : /\ File(q) \in t /\ HasRecordingEnding(Name(q))
                      /\ ~\E r \in DiscoveredRecordingFolders(t) : q[1] = r[1]}

\* C10: validate_raw_ephys_data_of_session fails whenever a file ending in .lf.meta,
\* .lf.bin, .ap.meta or .ap.bin lies, at any depth, outside every recording folder
\* the *_g? glob discovers; when it succeeds, the returned list holds, once each,
\* exactly the regular files below the discovered recording folders.
C10_RecordingFilesInsideRecordings ==
    last.op = "validate_raw_ephys_data_of_session" =>
        /\ RecordingFilesOutside(tree) # {} => last.out.kind # "ok"
        /\ last.out.kind = "ok" =>
              /\ Range(last.out.value) =
                    {q \in Paths(tree) :
                        /\ File(q) \in tree
                        /\ \E r \in DiscoveredRecordingFolders(tree) :
                              Len(q) > 1 /\ q[1] = r[1]}
              /\ Cardinality(Range(last.out.value)) = Len(last.out.value)

\* C10 witness: with a .lf.meta file in the task folder, two levels below the root,
\* and the recordings in order, the call has failed on the stray file
C10_Witness ==
    /\ last.op = "validate_raw_ephys_data_of_session"
    /\ \E q \in RecordingFilesOutside(tree) : Len(q) = 2
    /\ last.out.kind = "ValueError"
    /\ last.out.detail = "stray_recording_file"

----------------------------------------------------------------------------
(* Claims on the videos, under SpecVideo *)

\* the entries named *.avi or metadata.csv outside {session}/{session}_cameras
VideoEntriesOutside(t, session_name) ==
    {q \in Paths(t) : /\ EndsWith(Name(q), <<".", "a", "v", "i">>) \/ Name(q) = MetadataCsv
                      /\ q[1] # session_name \o <<"_", "c", "a", "m", "e", "r", "a", "s">>}

CamerasFolderAbsent(t, session_name) ==
    <<session_name \o <<"_", "c", "a", "m", "e", "r", "a", "s">>>> \notin Paths(t)

----------------------------------------------------------------------------
(* Claims on the behavioural data, under SpecBehavior *)

\* the root entries of the extension that are not whitelisted
RootFilesOf(t, ext, whitelist) ==
    {q \in Paths(t) : Len(q) = 1 /\ EndsWith(q[1], ext) /\ q[1] \notin whitelist}

AllMatchPattern(files, ext, session_name) ==
    \A q \in files : PycontrolMatch(ext, session_name, Name(q))

\* C5: on a validly named session, for .pca (2 expected) and then .txt (1
\* expected), the whitelisted root files are not counted, and the call fails with
\* WrongNumberOfFilesError for the extension exactly when every remaining file of
\* the extension matches the pattern and their number differs from the expected
\* one; the error reports expected and found, and no list is returned.
C5_WrongCountReported ==
    (/\ last.op = "validate_raw_behavioral_data_of_session"
     /\ exists /\ ValidSessionName(sessionName, last.args[1], padsYear)) =>
        LET pca == RootFilesOf(tree, ExtPca, last.args[2])
            txt == RootFilesOf(tree, ExtTxt, last.args[2])
            pcaWrong == /\ AllMatchPattern(pca, ExtPca, sessionName)
                        /\ Cardinality(pca) # 2
            txtWrong == /\ AllMatchPattern(pca, ExtPca, sessionName)
                        /\ Cardinality(pca) = 2
                        /\ AllMatchPattern(txt, ExtTxt, sessionName)
                        /\ Cardinality(txt) # 1
        IN  /\ pcaWrong <=> (/\ last.out.kind = "WrongNumberOfFilesError"
                             /\ last.out.detail = "pca_count")
            /\ pcaWrong => /\ last.out.expected = 2
                           /\ last.out.found = Cardinality(pca)
                           /\ last.out.value = <<>>
            /\ txtWrong <=> (/\ last.out.kind = "WrongNumberOfFilesError"
                             /\ last.out.detail = "txt_count")
            /\ txtWrong => /\ last.out.expected = 1
                           /\ last.out.found = Cardinality(txt)
                           /\ last.out.value = <<>>

\* C5 witness: a session whose only .pca file is {session}_MotSen1-X.pca has failed
\* with expected 2, found 1
C5_Witness ==
    /\ last.op = "validate_raw_behavioral_data_of_session"
    /\ RootFilesOf(tree, ExtPca, last.args[2]) = {<<PcaOf(sessionName, "1", "X")>>}
    /\ last.out.kind = "WrongNumberOfFilesError"
    /\ last.out.expected = 2
    /\ last.out.found = 1

RootFilesValid(t, session_name, whitelist) ==
    /\ AllMatchPattern(RootFilesOf(t, ExtPca, whitelist), ExtPca, session_name)
    /\ Cardinality(RootFilesOf(t, ExtPca, whitelist)) = 2
    /\ AllMatchPattern(RootFilesOf(t, ExtTxt, whitelist), ExtTxt, session_name)
    /\ Cardinality(RootFilesOf(t, ExtTxt, whitelist)) = 1

\* the entries named *.py in run_task-task_files
TaskPyFiles(t) ==
    {q \in Paths(t) : Len(q) = 2 /\ q[1] = TaskFolderName /\ EndsWith(q[2], ExtPy)}

\* C6: on a validly named session with valid root .pca and .txt files: without the
\* run_task-task_files folder the call succeeds, warns when warnings are on and
\* returns the root files only; with the folder it succeeds exactly when the folder
\* holds one .py file, which is the last element of the result after the root
\* files; no .py file fails and two or more fail.
C6_TaskFolder ==
    (/\ last.op = "validate_raw_behavioral_data_of_session"
     /\ exists /\ ValidSessionName(sessionName, last.args[1], padsYear)
     /\ RootFilesValid(tree, sessionName, last.args[2])) =>
        LET root == RootFilesOf(tree, ExtPca, last.args[2])
                        \cup RootFilesOf(tree, ExtTxt, last.args[2])
            py == TaskPyFiles(tree)
            value == last.out.value
        IN  IF <<TaskFolderName>> \notin Paths(tree)
            THEN /\ last.out.kind = "ok"
                 /\ Len(value) = 3 /\ Range(value) = root
                 /\ last.out.warnings = IF last.args[3] THEN {"no_task_folder"} ELSE {}
            ELSE /\ (last.out.kind = "ok") <=> Cardinality(py) = 1
                 /\ last.out.kind = "ok" =>
                        /\ Len(value) = 4 /\ py = {value[4]}
                        /\ {value[i] : i \in 1..3} = root
                        /\ last.out.warnings = {}
                 /\ Cardinality(py) = 0 => last.out.kind = "FileNotFoundError"
                 /\ Cardinality(py) >= 2 => last.out.kind = "ValueError"

\* C6 witness: with valid root files and two .py files in the task folder the call
\* has failed
C6_Witness ==
    /\ last.op = "validate_raw_behavioral_data_of_session"
    /\ RootFilesValid(tree, sessionName, last.args[2])
    /\ Cardinality(TaskPyFiles(tree)) = 2
    /\ last.out.kind = "ValueError"
    /\ last.out.detail = "several_py_files"

----------------------------------------------------------------------------
(* Claims on whole sessions, under SpecSession *)

BehaviorAlone ==
    ValidateRawBehavioralData(tree, sessionName, exists, last.args[1], last.args[5],
                              TRUE, padsYear)

EphysAlone ==
    ValidateRawEphysData(tree, scanOrder, sessionName, exists, last.args[1],
                         last.args[6], padsYear)

VideosAlone == ValidateRawVideos(tree, sessionName, exists, last.args[1], TRUE, padsYear)

\* C8: validate_raw_session returns a triple in which the list of a data type whose
\* toggle is off is empty and the list of one whose toggle is on is its validator's;
\* it succeeds whenever the validators whose toggle is on succeed, whatever the
\* others would find, and fails only with the error of one whose toggle is on.
C8_TogglesSelectValidators ==
    last.op = "validate_raw_session" =>
        LET on == <<last.args[2], last.args[3], last.args[4]>>
            alone == <<BehaviorAlone, EphysAlone, VideosAlone>>
        IN  /\ (\A i \in 1..3 : on[i] => alone[i].kind = "ok") <=> last.out.kind = "ok"
            /\ last.out.kind = "ok" =>
                  /\ Len(last.out.value) = 3
                  /\ \A i \in 1..3 :
                        last.out.value[i] = IF on[i] THEN alone[i].value ELSE <<>>
            /\ last.out.kind # "ok" =>
                  \E i \in 1..3 : on[i] /\ alone[i].kind = last.out.kind

\* C8 witness: with the behavioural toggle off and the other two on, on a tree whose
\* behavioural data alone is invalid, the call has succeeded with an empty first list
C8_Witness ==
    /\ last.op = "validate_raw_session"
    /\ ~last.args[2] /\ last.args[3] /\ last.args[4]
    /\ BehaviorAlone.kind # "ok"
    /\ last.out.kind = "ok"
    /\ last.out.value[1] = <<>>
    /\ last.out.value[2] # <<>>

----------------------------------------------------------------------------
(* The contents of the video folder, under SpecVideo *)

\* the names of the entries of {session}_cameras, by kind of name
CameraFolderNames(t, session_name) ==
    {q[2] : q \in {x \in Paths(t) :
                      /\ Len(x) = 2
                      /\ x[1] = session_name \o <<"_", "c", "a", "m", "e", "r", "a", "s">>}}

AviNames(t, session_name) ==
    {n \in CameraFolderNames(t, session_name) : EndsWith(n, <<".", "a", "v", "i">>)}

\* at least one .avi entry, each named {session}_camera_..., and metadata.csv the
\* one entry beside them
CameraFolderAccepted(t, session_name) ==
    /\ AviNames(t, session_name) # {}
    /\ \A n \in AviNames(t, session_name) :
          StartsWith(n, session_name \o <<"_", "c", "a", "m", "e", "r", "a", "_">>)
    /\ CameraFolderNames(t, session_name) \ AviNames(t, session_name) = {MetadataCsv}

\* C11: on a validly named session whose {session}_cameras folder exists,
\* validate_raw_videos_of_session fails whenever the folder holds no .avi file, an
\* .avi file not named {session}_camera_..., no metadata.csv, or an entry beside
\* the .avi files and metadata.csv; with no video entry elsewhere in the session it
\* succeeds exactly when none of these is the case, and returns the folder's files.
C11_CameraFolderContents ==
    (/\ last.op = "validate_raw_videos_of_session"
     /\ exists /\ ValidSessionName(sessionName, last.args[1], padsYear)
     /\ ~CamerasFolderAbsent(tree, sessionName)) =>
        /\ ~CameraFolderAccepted(tree, sessionName) => last.out.kind # "ok"
        /\ VideoEntriesOutside(tree, sessionName) = {} =>
              ((last.out.kind = "ok") <=> CameraFolderAccepted(tree, sessionName))
        /\ last.out.kind = "ok" =>
              /\ {Name(q) : q \in Range(last.out.value)} = CameraFolderNames(tree, sessionName)
              /\ Len(last.out.value) = Cardinality(CameraFolderNames(tree, sessionName))
        /\ (/\ AviNames(tree, sessionName) # {}
            /\ \A n \in AviNames(tree, sessionName) :
                  StartsWith(n, sessionName \o CameraPrefix)
            /\ MetadataCsv \in CameraFolderNames(tree, sessionName)
            /\ ~CameraFolderAccepted(tree, sessionName))
              => last.out.kind = "ValueError"

\* C11 witness: a video folder with well named .avi files, metadata.csv and one
\* more entry has been refused with ValueError
C11_Witness ==
    /\ last.op = "validate_raw_videos_of_session"
    /\ ValidSessionName(sessionName, last.args[1], padsYear)
    /\ AviNames(tree, sessionName) # {}
    /\ \A n \in AviNames(tree, sessionName) : StartsWith(n, sessionName \o CameraPrefix)
    /\ {MetadataCsv, NotesTxt} \subseteq CameraFolderNames(tree, sessionName)
    /\ last.out.kind = "ValueError"
    /\ last.out.detail = "unexpected_in_video_folder"

----------------------------------------------------------------------------
(* Several recordings in a session, under SpecEphys *)

\* the entries with a recording ending, of any kind and at any depth, outside the
\* discovered folders
RecordingEntriesOutside(t) ==
    {q \in Paths(t) : /\ HasRecordingEnding(Name(q))
                      /\ ~\E r \in DiscoveredRecordingFolders(t) : q[1] = r[1]}

\* every discovered recording folder passes validate_raw_ephys_recording on its own
EachRecordingPasses(t, session_name, allowed) ==
    \A r \in DiscoveredRecordingFolders(t) :
        ValidateRawEphysRecording(t, session_name, r, allowed).kind = "ok"

FilesOfRecordings(t) ==
    {q \in Paths(t) : /\ File(q) \in t /\ Len(q) > 1
                      /\ \E r \in DiscoveredRecordingFolders(t) : q[1] = r[1]}

\* C12: on a validly named session without a recording file outside the discovered
\* folders, validate_raw_ephys_data_of_session succeeds when every discovered folder
\* passes validate_raw_ephys_recording, returns the files of all of them, and warns
\* exactly when there are two or more; with no discovered folder it returns the
\* empty list; with a discovered entry that fails its own validation it fails.
C12_SeveralRecordingsTolerated ==
    (/\ last.op = "validate_raw_ephys_data_of_session"
     /\ exists /\ ValidSessionName(sessionName, last.args[1], padsYear)) =>
        LET recs == DiscoveredRecordingFolders(tree)
            pass == EachRecordingPasses(tree, sessionName, last.args[2])
        IN  /\ (pass /\ RecordingEntriesOutside(tree) = {}) =>
                  /\ last.out.kind = "ok"
                  /\ Range(last.out.value) = FilesOfRecordings(tree)
                  /\ last.out.warnings = IF Cardinality(recs) >= 2
                                         THEN {"multiple_recordings"} ELSE {}
            /\ (recs = {} /\ RecordingEntriesOutside(tree) = {}) =>
                  last.out.kind = "ok" /\ last.out.value = <<>>
            /\ ~pass => last.out.kind \in {"ValueError", "NotADirectoryError"}
            /\ (\E r \in recs : Name(r)[Len(Name(r))] \notin AllDigits)
                  => last.out.kind # "ok"

\* C12 witness: with two recording folders that both pass and both hold files, the
\* call has warned, succeeded and returned files of both
C12_Witness ==
    /\ last.op = "validate_raw_ephys_data_of_session"
    /\ Cardinality(DiscoveredRecordingFolders(tree)) = 2
    /\ EachRecordingPasses(tree, sessionName, last.args[2])
    /\ last.out.kind = "ok"
    /\ "multiple_recordings" \in last.out.warnings
    /\ \A r \in DiscoveredRecordingFolders(tree) :
          \E q \in Range(last.out.value) : q[1] = r[1]

=============================================================================
